---------------------------- MODULE Spec2Model ----------------------------
(* A model of the three programs of hpc_performance:                       *)
(*   single_jobs/get_su_threads_cpus.py   the sweep orchestrator           *)
(*   nextflow/pipeline/get_su_nf.py       the utilization-weighted report  *)
(*   nextflow/fixed_cpus/get_su_nf2-fixedCpus.py   the fixed-core report   *)
(* Texts on which the code does character work (substring tests, split,    *)
(* strip, int(), float()) are sequences of one-character strings.          *)
EXTENDS Integers, Sequences, FiniteSets, TLC

VARIABLES
    \* ---- sweep orchestrator (get_su_threads_cpus.py) ----
    cpu_list,     \* main: the parsed <cpu_list> argument
    pc,           \* main: "submit", "poll", "sleep", "result", "done", "aborted"
    idx,          \* position of the running for loop (1-based)
    job_ids,      \* main: the dict job_ids, as its items in insertion order
    files,        \* the working directory: file name -> content or NoFile
    sched,        \* the scheduler's jobs; a job's ID is its position
    log_file,     \* the lines written to job_output.log
    job_status,   \* wait_for_job_completion: the text of the last status query
    attempted,    \* history: one record per submission attempt
    queried,      \* history: the job IDs a status query was issued for
    returned,     \* history: the job IDs whose poll returned, in order
    wallReads,    \* history: one record per read_wall_time call
    \* ---- duration parser, run on its own ----
    time_str,     \* the argument of convert_time_to_hours
    time_out,     \* its outcome, or Pending
    \* ---- accounting reports (get_su_nf.py, get_su_nf2-fixedCpus.py) ----
    variant,      \* which report runs: "nf" or "fixed"
    cpus,         \* get_su_nf2-fixedCpus.py: the <CPUs> argument
    rows,         \* the data rows of the input file
    rpc,          \* "parse", "output", "printed", "crashed"
    ridx,         \* position of the running for loop
    tasks,        \* the records built so far
    total_su,     \* the running total
    printed       \* the per-record SU values printed, then the total

sweepVars == <<cpu_list, pc, idx, job_ids, files, sched, log_file, job_status,
               attempted, queried, returned, wallReads>>
timeVars == <<time_str, time_out>>
acctVars == <<variant, cpus, rows, rpc, ridx, tasks, total_su, printed>>
vars == <<sweepVars, timeVars, acctVars>>

-----------------------------------------------------------------------------
(* Bounds of the model.                                                    *)

\* the CPU counts a sweep may name: 1..MaxCpu
MaxCpu == 2
\* the longest <cpu_list>
MaxList == 2
\* the longest duration string given to convert_time_to_hours on its own
MaxLen == 6
\* the most data rows of an accounting export
MaxRows == 2

(* Program constants.                                                      *)
cores_per_cpu == 64
su_cost_per_core_hour == 1

-----------------------------------------------------------------------------
(* Text helpers.                                                           *)

\* Python's `pat in text` on strings
Contains(text, pat) ==
    \E i \in 0..(Len(text) - Len(pat)) : SubSeq(text, i + 1, i + Len(pat)) = pat

T_Error == <<"E","r","r","o","r">>
T_COMPLETED == <<"C","O","M","P","L","E","T","E","D">>
T_FAILED == <<"F","A","I","L","E","D">>
T_CANCELLED == <<"C","A","N","C","E","L","L","E","D">>
T_RUNNING == <<"R","U","N","N","I","N","G">>
T_PENDING == <<"P","E","N","D","I","N","G">>
T_TIMEOUT == <<"T","I","M","E","O","U","T">>
T_NODE_FAIL == <<"N","O","D","E","_","F","A","I","L">>

DigitChars == <<"1","2","3","4","5","6","7","8","9">>

\* the scheduler prints a job's number as its ID
JobIdText(n) == <<DigitChars[n]>>

NoFile == [kind |-> "none"]
Pending == [kind |-> "pending"]

-----------------------------------------------------------------------------
(* The duration parser, the same in both accounting reports.  A duration   *)
(* is held exactly, as n * 10^-k seconds with k least: the hours returned  *)
(* are n / (3600 * 10^k).  Python computes the same sum in binary floating *)
(* point.                                                                  *)

Digits == {"0","1","2","3","4","5","6","7","8","9"}
DigitVal(c) ==
    CASE c = "0" -> 0 [] c = "1" -> 1 [] c = "2" -> 2 [] c = "3" -> 3
      [] c = "4" -> 4 [] c = "5" -> 5 [] c = "6" -> 6 [] c = "7" -> 7
      [] c = "8" -> 8 [] OTHER -> 9

AllDigits(t) == \A i \in 1..Len(t) : t[i] \in Digits

RECURSIVE NatVal(_)
NatVal(t) == IF t = <<>> THEN 0
             ELSE 10 * NatVal(SubSeq(t, 1, Len(t) - 1)) + DigitVal(t[Len(t)])

RECURSIVE Pow10(_)
Pow10(k) == IF k = 0 THEN 1 ELSE 10 * Pow10(k - 1)

\* the position of the first ch in t, 0 when there is none
FirstIndex(t, ch) ==
    IF \E i \in 1..Len(t) : t[i] = ch
    THEN CHOOSE i \in 1..Len(t) : t[i] = ch /\ \A j \in 1..(i - 1) : t[j] # ch
    ELSE 0

\* str.split(ch)
RECURSIVE Split(_, _)
Split(t, ch) ==
    LET i == FirstIndex(t, ch) IN
    IF i = 0 THEN <<t>>
    ELSE <<SubSeq(t, 1, i - 1)>> \o Split(SubSeq(t, i + 1, Len(t)), ch)

\* str.strip(), of blanks
RECURSIVE Strip(_)
Strip(t) ==
    IF t = <<>> THEN t
    ELSE IF t[1] = " " THEN Strip(Tail(t))
    ELSE IF t[Len(t)] = " " THEN Strip(SubSeq(t, 1, Len(t) - 1))
    ELSE t

ValueError == [kind |-> "ValueError"]
Value(n, k) == [kind |-> "value", n |-> n, k |-> k]

\* n * 10^-k with the least k
RECURSIVE Normal(_, _)
Normal(n, k) == IF k > 0 /\ n % 10 = 0 THEN Normal(n \div 10, k - 1) ELSE Value(n, k)

\* int(t): decimal digits, blanks around them allowed
py_int(t) ==
    LET u == Strip(t) IN
    IF u # <<>> /\ AllDigits(u) THEN Value(NatVal(u), 0) ELSE ValueError

\* float(t): digits with at most one point and at least one digit
py_float(t) ==
    LET u == Strip(t)
        p == FirstIndex(u, ".")
        ip == IF p = 0 THEN u ELSE SubSeq(u, 1, p - 1)
        fp == IF p = 0 THEN <<>> ELSE SubSeq(u, p + 1, Len(u))
    IN IF AllDigits(ip) /\ AllDigits(fp) /\ Len(ip) + Len(fp) > 0
       THEN Normal(NatVal(ip \o fp), Len(fp))
       ELSE ValueError

\* hours + minutes / 60 + seconds / 3600, the seconds being n * 10^-k
HoursSum_minutesAsSeconds(hours, minutes, n, k) ==
    Normal((hours * 3600 + minutes) * Pow10(k) + n, k)
HoursSum(hours, minutes, n, k) ==
    Normal((hours * 3600 + minutes * 60) * Pow10(k) + n, k)

\* convert_time_to_hours: the value returned, or ValueError
convert_time_to_hours(time_str0) ==
    LET hasH == Contains(time_str0, <<"h">>)
        hours == IF hasH THEN py_int(Split(time_str0, "h")[1]) ELSE Value(0, 0)
        str1 == IF hasH THEN Strip(Split(time_str0, "h")[2]) ELSE time_str0
        hasM == Contains(str1, <<"m">>)
        minutes == IF hasM THEN py_int(Split(str1, "m")[1]) ELSE Value(0, 0)
        str2 == IF hasM THEN Strip(Split(str1, "m")[2]) ELSE str1
        hasS == Contains(str2, <<"s">>)
        seconds == IF hasS THEN py_float(Split(str2, "s")[1]) ELSE Value(0, 0)
    IN IF hours = ValueError THEN ValueError
       ELSE IF minutes = ValueError THEN ValueError
       ELSE IF seconds = ValueError THEN ValueError
       ELSE HoursSum(hours.n, minutes.n, seconds.n, seconds.k)

\* the characters of the duration strings tried
Alphabet == {"0", "3", "h", "m", "s", "."}
DurationStrings == UNION {[1..n -> Alphabet] : n \in 0..MaxLen}

\* one call of convert_time_to_hours
Convert ==
    /\ time_out = Pending
    /\ time_out' = convert_time_to_hours(time_str)
    /\ UNCHANGED time_str

-----------------------------------------------------------------------------
(* The accounting reports.  A data row is its number of columns and the    *)
(* texts of the columns the SU depends on; names and memory texts go       *)
(* through clean_name and format_memory, which never raise.  An SU is a    *)
(* decimal n * 10^-k counted in 1/360000 SU (get_su_nf.py) or in 1/100 SU  *)
(* (get_su_nf2-fixedCpus.py).                                              *)

IndexError == [kind |-> "IndexError"]

\* row[i], columns counted from 0
Column(row, i, text) ==
    IF i < row.ncols THEN [kind |-> "text", text |-> text] ELSE IndexError

\* str.replace('%', '')
NotPercent(c) == c # "%"
RemovePercent(t) == SelectSeq(t, NotPercent)

\* a + b on decimals
Add(a, b) ==
    LET K == IF a.k > b.k THEN a.k ELSE b.k IN
    Normal(a.n * Pow10(K - a.k) + b.n * Pow10(K - b.k), K)

\* get_su_nf.py calculate_su: (cpu_percent / 100) * cores_per_node * hours
calculate_su_nf(cpu_percent, duration_str, cores_per_node) ==
    LET d == convert_time_to_hours(duration_str) IN
    IF d = ValueError THEN ValueError
    ELSE Normal(cpu_percent.n * cores_per_node * d.n, cpu_percent.k + d.k)

\* round(hours, 2), in hundredths of an hour (a tie is rounded up)
Round2(d) == (2 * d.n + 36 * Pow10(d.k)) \div (72 * Pow10(d.k))

\* get_su_nf.py parse_input_file: one row of the reader
ParseRowNf ==
    /\ variant = "nf"
    /\ rpc = "parse"
    /\ LET row == rows[ridx]
           c0 == Column(row, 0, <<>>)
           c7 == Column(row, 7, row.duration)
           c9 == Column(row, 9, row.cpu)
           cpu_percent == IF c9 = IndexError THEN IndexError
                          ELSE py_float(RemovePercent(c9.text))
           c10 == Column(row, 10, <<>>)
       IN IF \/ c0 = IndexError \/ c7 = IndexError \/ c9 = IndexError
             \/ cpu_percent = ValueError \/ c10 = IndexError
          THEN /\ rpc' = "crashed"
               /\ UNCHANGED <<ridx, tasks>>
          ELSE /\ tasks' = Append(tasks, [cpu_percent |-> cpu_percent,
                                          duration |-> c7.text])
               /\ IF ridx + 1 > Len(rows)
                  THEN rpc' = "output" /\ ridx' = 1
                  ELSE rpc' = "parse" /\ ridx' = ridx + 1
    /\ UNCHANGED <<variant, cpus, rows, total_su, printed>>

\* get_su_nf.py output_results: one task
OutputTaskNf ==
    /\ variant = "nf"
    /\ rpc = "output"
    /\ ridx <= Len(tasks)
    /\ LET task == tasks[ridx]
           su == calculate_su_nf(task.cpu_percent, task.duration, 64)
       IN IF su = ValueError
          THEN /\ rpc' = "crashed"
               /\ UNCHANGED <<ridx, total_su, printed>>
          ELSE /\ total_su' = Add(total_su, su)
               /\ printed' = Append(printed, [kind |-> "task", su |-> su])
               /\ ridx' = ridx + 1
               /\ rpc' = "output"
    /\ UNCHANGED <<variant, cpus, rows, tasks>>

\* get_su_nf.py output_results: the total, after the last task
PrintTotalNf ==
    /\ variant = "nf"
    /\ rpc = "output"
    /\ ridx > Len(tasks)
    /\ printed' = Append(printed, [kind |-> "total", su |-> total_su])
    /\ rpc' = "printed"
    /\ UNCHANGED <<variant, cpus, rows, ridx, tasks, total_su>>

\* get_su_nf2-fixedCpus.py main: one row of the loop
FixedRow ==
    /\ variant = "fixed"
    /\ rpc = "parse"
    /\ LET row == rows[ridx]
           c3 == Column(row, 3, <<>>)
           c8 == Column(row, 8, row.duration)
           c10 == Column(row, 10, <<>>)
           d == IF c8 = IndexError THEN IndexError ELSE convert_time_to_hours(c8.text)
       IN IF c3 = IndexError \/ c8 = IndexError \/ c10 = IndexError \/ d = ValueError
          THEN /\ rpc' = "crashed"
               /\ UNCHANGED <<ridx, tasks, total_su>>
          ELSE LET duration_hours == Round2(d)
                   SU == Value(duration_hours * (64 * cpus), 0)
               IN /\ total_su' = Add(total_su, SU)
                  /\ tasks' = Append(tasks, [duration |-> c8.text,
                                             duration_hours |-> duration_hours,
                                             SU |-> SU])
                  /\ IF ridx + 1 > Len(rows)
                     THEN rpc' = "print" /\ ridx' = ridx
                     ELSE rpc' = "parse" /\ ridx' = ridx + 1
    /\ UNCHANGED <<variant, cpus, rows, printed>>

\* get_su_nf2-fixedCpus.py main: the table and the total
FixedPrint ==
    /\ variant = "fixed"
    /\ rpc = "print"
    /\ printed' = [i \in 1..Len(tasks) |-> [kind |-> "task", su |-> tasks[i].SU]]
                     \o <<[kind |-> "total", su |-> total_su]>>
    /\ rpc' = "printed"
    /\ UNCHANGED <<variant, cpus, rows, ridx, tasks, total_su>>

\* the column counts, duration texts and CPU texts of the rows tried
ColumnCounts == {10, 11}
DurationTexts == {<<"3", "h">>, <<"3", "h", " ", "3", "m">>, <<"-">>, <<"h">>}
CpuTexts == {<<"5", "0", "%">>, <<"-">>}
Rows == [ncols : ColumnCounts, duration : DurationTexts, cpu : CpuTexts]
RowLists == UNION {[1..n -> Rows] : n \in 0..MaxRows}

-----------------------------------------------------------------------------
(* The sweep orchestrator.                                                 *)

CpuCounts == 1..MaxCpu

script_filename(num_cpus) == <<"slurm_job_", num_cpus, ".sh">>
time_filename(num_cpus) == <<"job-", num_cpus, ".time">>

FileNames == {script_filename(n) : n \in CpuCounts} \cup {time_filename(n) : n \in CpuCounts}

\* a job's elapsed seconds, as the script's `date` arithmetic may give them
WallTimes == {1800}
\* what an earlier run may have left in a job-<n>.time file
StaleTimes == {7200}

\* the script text: what of it varies with num_cpus
ScriptContent(num_cpus) ==
    [kind |-> "script",
     ntasks |-> num_cpus,
     cores |-> num_cpus * 64,
     job_name |-> <<"test_job_", num_cpus, "_cpus">>,
     time_file |-> time_filename(num_cpus)]

\* create_slurm_script: the directory after the script is written
create_slurm_script(fs, num_cpus) ==
    [fs EXCEPT ![script_filename(num_cpus)] = ScriptContent(num_cpus)]

\* what running sbatch can do
SbatchOutcomes == {"ok", "rejected", "no_output", "not_invocable"}

\* the split() of sbatch's stdout
SbatchStdout(outcome, n) ==
    IF outcome = "ok" THEN <<"Submitted", "batch", "job", JobIdText(n)>> ELSE <<>>

Raise == [raised |-> TRUE]

\* submit_slurm_job: the returned text, or the exception subprocess.run raises
submit_slurm_job(outcome, n) ==
    IF outcome = "not_invocable" THEN Raise
    ELSE IF outcome = "rejected"
         THEN [raised |-> FALSE,
               value |-> T_Error \o <<" ","s","u","b","m","i","t","t","i","n","g">>]
    ELSE LET output == SbatchStdout(outcome, n) IN
         IF Len(output) = 0
         THEN [raised |-> FALSE,
               value |-> T_Error \o <<":"," ","F","a","i","l","e","d">>]
         ELSE [raised |-> FALSE, value |-> output[Len(output)]]

\* job_ids[k] = v on a dict kept as its items in insertion order
DictSet(d, k, v) ==
    IF \E i \in 1..Len(d) : d[i].key = k
    THEN [i \in 1..Len(d) |-> IF d[i].key = k THEN [key |-> k, val |-> v] ELSE d[i]]
    ELSE Append(d, [key |-> k, val |-> v])

DictKeys(d) == {d[i].key : i \in 1..Len(d)}

\* the for loop over cpu_list has no element left
SubmitLoopDone_early(i) == i > 1
SubmitLoopDone(i) == i > Len(cpu_list)

\* where main goes after the submission loop
AfterSubmit(ids) == IF Len(ids) = 0
                    THEN (IF Len(cpu_list) = 0 THEN "done" ELSE "result")
                    ELSE "poll"

\* the job the scheduler knows under the ID text
JobOf(id) == CHOOSE n \in 1..Len(sched) : JobIdText(n) = id

\* one iteration of the submission loop
SubmitIteration(outcome) ==
    /\ pc = "submit"
    /\ LET num_cpus == cpu_list[idx]
           n == Len(sched) + 1
           r == submit_slurm_job(outcome, n)
           fs == create_slurm_script(files, num_cpus)
           accepted == outcome = "ok"
           ids == IF ~r.raised /\ ~Contains(r.value, T_Error)
                  THEN DictSet(job_ids, num_cpus, r.value)
                  ELSE job_ids
       IN /\ files' = fs
          /\ sched' = IF accepted
                      THEN Append(sched, [script |-> fs[script_filename(num_cpus)],
                                          state |-> "PENDING"])
                      ELSE sched
          /\ attempted' = Append(attempted,
                                 [cpu |-> num_cpus,
                                  script |-> script_filename(num_cpus),
                                  time_file |-> ScriptContent(num_cpus).time_file,
                                  outcome |-> outcome,
                                  job |-> IF accepted THEN n ELSE 0])
          /\ IF r.raised
             THEN /\ pc' = "aborted"
                  /\ UNCHANGED <<idx, job_ids>>
             ELSE /\ job_ids' = ids
                  /\ IF SubmitLoopDone(idx + 1)
                     THEN pc' = AfterSubmit(ids) /\ idx' = 1
                     ELSE pc' = "submit" /\ idx' = idx + 1
    /\ UNCHANGED <<cpu_list, log_file, job_status, queried, returned, wallReads>>

\* sacct's stdout, stripped, for a job in the state
SacctTexts(state) ==
    CASE state = "PENDING" -> {<<>>, T_PENDING}
      [] state = "RUNNING" -> {T_RUNNING}
      [] state = "COMPLETED" -> {T_COMPLETED, T_COMPLETED \o <<"\n">> \o T_COMPLETED}
      [] state = "FAILED" -> {T_FAILED}
      [] state = "CANCELLED" -> {T_CANCELLED \o <<"+">>}
      [] state = "TIMEOUT" -> {T_TIMEOUT}
      [] OTHER -> {T_NODE_FAIL}

\* wait_for_job_completion: the test that leaves the loop
JobFinished_noCancelled(job_status_text) ==
    \/ Contains(job_status_text, T_COMPLETED)
    \/ Contains(job_status_text, T_FAILED)
JobFinished(job_status_text) ==
    \/ Contains(job_status_text, T_COMPLETED)
    \/ Contains(job_status_text, T_FAILED)
    \/ Contains(job_status_text, T_CANCELLED)

\* wait_for_job_completion: one status query and the test of its text
\* (sacct itself is taken to run; only its output varies)
PollQuery ==
    /\ pc = "poll"
    /\ LET job_id == job_ids[idx].val IN
       \E text \in SacctTexts(sched[JobOf(job_id)].state) :
          /\ job_status' = text
          /\ queried' = queried \cup {job_id}
          /\ IF JobFinished(text)
             THEN /\ returned' = Append(returned, job_id)
                  /\ IF idx + 1 > Len(job_ids)
                     THEN pc' = "result" /\ idx' = 1
                     ELSE pc' = "poll" /\ idx' = idx + 1
             ELSE /\ pc' = "sleep"
                  /\ UNCHANGED <<idx, returned>>
    /\ UNCHANGED <<cpu_list, job_ids, files, sched, log_file, attempted, wallReads>>

\* wait_for_job_completion: time.sleep(10)
PollSleep ==
    /\ pc = "sleep"
    /\ pc' = "poll"
    /\ UNCHANGED <<cpu_list, idx, job_ids, files, sched, log_file, job_status,
                   attempted, queried, returned, wallReads>>

\* read_wall_time: the elapsed seconds read (the hours are seconds / 3600)
read_wall_time_raises(fs, cpu_count) ==
    IF fs[time_filename(cpu_count)] = NoFile
    THEN Raise
    ELSE [raised |-> FALSE, seconds |-> fs[time_filename(cpu_count)].elapsed]
read_wall_time(fs, cpu_count) ==
    IF fs[time_filename(cpu_count)] = NoFile
    THEN [raised |-> FALSE, seconds |-> 0]
    ELSE [raised |-> FALSE, seconds |-> fs[time_filename(cpu_count)].elapsed]

\* calculate_su, in SU-seconds: the SU is this / 3600
calculate_su(num_cpus, cpc, wall_seconds, cost) ==
    LET num_cores == num_cpus * cpc IN num_cores * wall_seconds * cost

\* the format {total_su:<10.2f}: the SU in hundredths, rounded
Format2f(su_seconds) == (su_seconds * 100 + 1800) \div 3600

HeaderLine == [kind |-> "header", columns |-> <<"CPUs", "Cores", "SU">>]
SeparatorLine == [kind |-> "rule", width |-> 30]

\* the row written for a CPU count
ResultRow_noCores(num_cpus, su_seconds) ==
    [kind |-> "row", cpus |-> num_cpus, cores |-> num_cpus,
     su |-> Format2f(su_seconds)]
ResultRow(num_cpus, su_seconds) ==
    [kind |-> "row", cpus |-> num_cpus, cores |-> num_cpus * cores_per_cpu,
     su |-> Format2f(su_seconds)]

\* one iteration of the result loop
ResultIteration ==
    /\ pc = "result"
    /\ LET num_cpus == cpu_list[idx]
           w == read_wall_time(files, num_cpus)
       IN /\ wallReads' = Append(wallReads,
                                 [cpu |-> num_cpus,
                                  missing |-> files[time_filename(num_cpus)] = NoFile])
          /\ IF w.raised
             THEN /\ pc' = "aborted"
                  /\ UNCHANGED <<idx, log_file>>
             ELSE /\ log_file' = Append(log_file,
                        ResultRow(num_cpus,
                                  calculate_su(num_cpus, cores_per_cpu, w.seconds,
                                               su_cost_per_core_hour)))
                  /\ IF idx + 1 > Len(cpu_list)
                     THEN pc' = "done" /\ idx' = idx
                     ELSE pc' = "result" /\ idx' = idx + 1
    /\ UNCHANGED <<cpu_list, job_ids, files, sched, job_status, attempted, queried,
                   returned>>

(* The scheduler runs the submitted jobs on its own.                       *)

JobStart(j) ==
    /\ sched[j].state = "PENDING"
    /\ sched' = [sched EXCEPT ![j].state = "RUNNING"]
    /\ UNCHANGED <<cpu_list, pc, idx, job_ids, files, log_file, job_status,
                   attempted, queried, returned, wallReads>>

\* the script runs to its last line, which writes job-<n>.time
JobComplete(j, secs) ==
    /\ sched[j].state = "RUNNING"
    /\ sched' = [sched EXCEPT ![j].state = "COMPLETED"]
    /\ files' = [files EXCEPT ![sched[j].script.time_file] = [kind |-> "time", elapsed |-> secs]]
    /\ UNCHANGED <<cpu_list, pc, idx, job_ids, log_file, job_status,
                   attempted, queried, returned, wallReads>>

\* the job ends before its last line
JobStop(j, state) ==
    /\ \/ sched[j].state = "PENDING" /\ state = "CANCELLED"
       \/ sched[j].state = "RUNNING" /\ state \in {"CANCELLED", "FAILED", "TIMEOUT"}
    /\ sched' = [sched EXCEPT ![j].state = state]
    /\ UNCHANGED <<cpu_list, pc, idx, job_ids, files, log_file, job_status,
                   attempted, queried, returned, wallReads>>

TimeIdle == time_str = <<>> /\ time_out = Pending
AcctIdle == /\ variant = "nf" /\ cpus = 1 /\ rows = <<>> /\ rpc = "printed" /\ ridx = 1
            /\ tasks = <<>> /\ total_su = [kind |-> "value", n |-> 0, k |-> 0]
            /\ printed = <<>>

SweepIdle == /\ cpu_list = <<>> /\ pc = "done" /\ idx = 1 /\ job_ids = <<>>
             /\ files = [f \in FileNames |-> NoFile] /\ sched = <<>>
             /\ log_file = <<>> /\ job_status = <<>> /\ attempted = <<>>
             /\ queried = {} /\ returned = <<>> /\ wallReads = <<>>

CpuLists == UNION {[1..n -> CpuCounts] : n \in 1..MaxList}

\* main, up to the submission loop
Init ==
    /\ cpu_list \in CpuLists
    /\ pc = "submit"
    /\ idx = 1
    /\ job_ids = <<>>
    /\ files \in {f \in [FileNames -> {NoFile} \cup [kind : {"time"}, elapsed : StaleTimes]] :
                    \A n \in CpuCounts :
                       /\ f[script_filename(n)] = NoFile
                       /\ (\A i \in 1..Len(cpu_list) : cpu_list[i] # n)
                             => f[time_filename(n)] = NoFile}
    /\ sched = <<>>
    /\ log_file = <<HeaderLine, SeparatorLine>>
    /\ job_status = <<>>
    /\ attempted = <<>>
    /\ queried = {}
    /\ returned = <<>>
    /\ wallReads = <<>>
    /\ TimeIdle
    /\ AcctIdle

Next ==
    \/ \E outcome \in SbatchOutcomes : SubmitIteration(outcome) /\ UNCHANGED <<timeVars, acctVars>>
    \/ PollQuery /\ UNCHANGED <<timeVars, acctVars>>
    \/ PollSleep /\ UNCHANGED <<timeVars, acctVars>>
    \/ ResultIteration /\ UNCHANGED <<timeVars, acctVars>>
    \/ \E j \in 1..Len(sched) : JobStart(j) /\ UNCHANGED <<timeVars, acctVars>>
    \/ \E j \in 1..Len(sched), secs \in WallTimes :
          JobComplete(j, secs) /\ UNCHANGED <<timeVars, acctVars>>
    \/ \E j \in 1..Len(sched), state \in {"CANCELLED", "FAILED", "TIMEOUT"} :
          JobStop(j, state) /\ UNCHANGED <<timeVars, acctVars>>

Spec == Init /\ [][Next]_vars

\* the duration parser on its own: one string, one call
InitTime ==
    /\ time_str \in DurationStrings
    /\ time_out = Pending
    /\ SweepIdle
    /\ AcctIdle

NextTime == Convert /\ UNCHANGED <<sweepVars, acctVars>>

SpecTime == InitTime /\ [][NextTime]_vars

\* an accounting report on a file: up to the first row
InitAcct ==
    /\ variant \in {"nf", "fixed"}
    /\ cpus \in IF variant = "fixed" THEN {1, 2} ELSE {1}
    /\ rows \in RowLists
    /\ rpc = IF rows # <<>> THEN "parse" ELSE IF variant = "nf" THEN "output" ELSE "print"
    /\ ridx = 1
    /\ tasks = <<>>
    /\ total_su = Value(0, 0)
    /\ printed = <<>>
    /\ SweepIdle
    /\ TimeIdle

NextAcct ==
    \/ ParseRowNf /\ UNCHANGED <<sweepVars, timeVars>>
    \/ OutputTaskNf /\ UNCHANGED <<sweepVars, timeVars>>
    \/ PrintTotalNf /\ UNCHANGED <<sweepVars, timeVars>>
    \/ FixedRow /\ UNCHANGED <<sweepVars, timeVars>>
    \/ FixedPrint /\ UNCHANGED <<sweepVars, timeVars>>

SpecAcct == InitAcct /\ [][NextAcct]_vars

-----------------------------------------------------------------------------
(* Properties of the sweep orchestrator, checked under Spec.               *)

\* the submission attempts the scheduler accepted, in order
Accepted(a) == a.outcome = "ok"
AcceptedAttempts == SelectSeq(attempted, Accepted)

\* the row of the log file at position p is the row of a CPU count
IsRowOf(line, num_cpus) ==
    /\ line.kind = "row"
    /\ line.cpus = num_cpus
    /\ line.cores = 64 * num_cpus

\* C1: the phases of a sweep are strictly ordered: no status query is issued
\* before a submission has been attempted for every CPU count of the list,
\* and no wall-time file is read (and no SU computed) before the poll of every
\* job in the job-ID mapping has returned.
C1_PhasesOrdered ==
    /\ queried # {} => Len(attempted) = Len(cpu_list)
    /\ Len(wallReads) > 0 =>
          /\ Len(attempted) = Len(cpu_list)
          /\ \A i \in 1..Len(job_ids) :
                \E k \in 1..Len(returned) : returned[k] = job_ids[i].val
    /\ Len(log_file) > 2 => Len(wallReads) > 0

\* two jobs were polled to the end and the first wall-time file has been read
C1_Witness ==
    /\ Len(cpu_list) = 2
    /\ Len(returned) = 2
    /\ Len(wallReads) = 1
    /\ pc = "result"

\* C2: a submission error for one CPU count (non-zero exit, no job-ID token,
\* or the scheduler cannot be invoked) does not abort the sweep: that CPU
\* count is left out of the mapping and never polled, submission goes on for
\* every later CPU count, and a report line is produced for every other CPU
\* count.
C2_SubmitErrorDoesNotAbort ==
    \A k \in 1..Len(attempted) :
       attempted[k].outcome # "ok" =>
          /\ pc # "aborted"
          /\ attempted[k].cpu \notin DictKeys(job_ids)
          /\ pc # "submit" => Len(attempted) = Len(cpu_list)
          /\ pc = "done" =>
                \A i \in 1..Len(cpu_list) :
                   cpu_list[i] # attempted[k].cpu =>
                      \E p \in 1..Len(log_file) : IsRowOf(log_file[p], cpu_list[i])

\* a step of wait_for_job_completion that issues a status query
QueryStep == pc = "poll" /\ (pc' # "poll" \/ idx' # idx)
\* a step on which wait_for_job_completion returns
ReturnStep == returned' # returned
\* the text holds one of the three terminal words
HasTerminalWord(text) ==
    \/ Contains(text, <<"C","O","M","P","L","E","T","E","D">>)
    \/ Contains(text, <<"F","A","I","L","E","D">>)
    \/ Contains(text, <<"C","A","N","C","E","L","L","E","D">>)

\* C3: wait_for_job_completion returns exactly when a status query's text
\* contains COMPLETED, FAILED or CANCELLED: it returns only on a query whose
\* text holds one of the three, it returns on the first such query without
\* waiting again, and a wait between two queries changes no file, no mapping
\* and no log line.
C3_PollReturnsExactlyOnTerminal ==
    [][ /\ ReturnStep => QueryStep /\ HasTerminalWord(job_status')
        /\ QueryStep /\ HasTerminalWord(job_status') => ReturnStep /\ pc' # "sleep"
        /\ QueryStep /\ ~HasTerminalWord(job_status') => pc' = "sleep" /\ ~ReturnStep
        /\ QueryStep => UNCHANGED <<files, job_ids, log_file, sched, cpu_list>>
        /\ pc = "sleep" /\ pc' # "sleep" =>
              /\ pc' = "poll"
              /\ UNCHANGED <<files, job_ids, log_file, sched, cpu_list, idx,
                             job_status, returned>>
      ]_vars

\* the first job's poll returned on CANCELLED, the second job's poll saw
\* RUNNING and waits
C3_Witness ==
    /\ Len(returned) = 1
    /\ pc = "sleep"
    /\ job_status = <<"R","U","N","N","I","N","G">>
    /\ sched[JobOf(returned[1])].state = "CANCELLED"

\* C4: if job-<cpu_count>.time does not exist when the result phase reads it,
\* read_wall_time returns 0 instead of raising, the sweep continues with the
\* remaining CPU counts, and the report holds a line for that CPU count whose
\* SU is 0.
C4_MissingTimeFileGivesZero ==
    \A k \in 1..Len(wallReads) :
       wallReads[k].missing =>
          /\ pc \in {"result", "done"}
          /\ Len(log_file) >= 2 + k
          /\ log_file[2 + k] = [kind |-> "row", cpus |-> cpu_list[k],
                                cores |-> 64 * cpu_list[k], su |-> 0]
          /\ pc = "done" => Len(wallReads) = Len(cpu_list)

\* the first time file was missing and the sweep went on to the second
C4_Witness ==
    /\ Len(wallReads) = 2
    /\ wallReads[1].missing
    /\ ~wallReads[2].missing
    /\ pc = "done"

\* C5 as stated: a finished sweep's log is a header (one or two lines), one
\* row per CPU count in the order given, then a trailing line with the
\* aggregate total SU, the sum of the rows' SU.
RECURSIVE SumSU(_, _, _)
SumSU(lines, from, to) ==
    IF from > to THEN 0 ELSE lines[from].su + SumSU(lines, from + 1, to)

C6_FailedSubmissionNeverRead ==
    \A k \in 1..Len(attempted) :
       attempted[k].outcome # "ok" =>
          /\ \A r \in 1..Len(wallReads) : wallReads[r].cpu # attempted[k].cpu
          /\ \A p \in 1..Len(log_file) :
                log_file[p].kind = "row" => log_file[p].cpus # attempted[k].cpu

\* C9: every job the scheduler accepted is polled to a terminal state before
\* any wall-time file is read, and the jobs are polled in the order of their
\* CPU counts, also when the list names a CPU count twice.
C9_EveryAcceptedJobPolled ==
    /\ Len(returned) <= Len(AcceptedAttempts)
    /\ \A k \in 1..Len(returned) : returned[k] = JobIdText(AcceptedAttempts[k].job)
    /\ Len(wallReads) > 0 => Len(returned) = Len(AcceptedAttempts)

\* C10: within one sweep no two submitted jobs share a file: the script files
\* and the time-record files of any two submissions are distinct.
C10_NoSharedFiles ==
    \A a, b \in 1..Len(attempted) :
       a # b /\ Accepted(attempted[a]) /\ Accepted(attempted[b]) =>
          /\ attempted[a].script # attempted[b].script
          /\ attempted[a].time_file # attempted[b].time_file
          /\ sched[attempted[a].job].script.time_file
                # sched[attempted[b].job].script.time_file

-----------------------------------------------------------------------------
(* Properties of the duration parser, checked under SpecTime.              *)

\* digits followed by the unit letter, or nothing
IsIntSegment(t, unit) ==
    \/ t = <<>>
    \/ /\ Len(t) >= 2
       /\ t[Len(t)] = unit
       /\ \A i \in 1..(Len(t) - 1) : t[i] \in Digits

\* digits, or digits.digits, followed by s, or nothing
IsSecondSegment(t) ==
    \/ t = <<>>
    \/ /\ Len(t) >= 2
       /\ t[Len(t)] = "s"
       /\ \/ \A i \in 1..(Len(t) - 1) : t[i] \in Digits
          \/ \E p \in 2..(Len(t) - 2) :
                /\ t[p] = "."
                /\ \A i \in 1..(Len(t) - 1) : i # p => t[i] \in Digits

\* the number written by the digits of a segment, as n * 10^-k
RECURSIVE DigitsNumber(_, _, _)
DigitsNumber(t, n, k) ==
    IF t = <<>> THEN <<n, k>>
    ELSE IF t[1] = "." THEN DigitsNumber(Tail(t), n, 0)
    ELSE IF t[1] \in Digits
         THEN DigitsNumber(Tail(t), 10 * n + DigitVal(t[1]), IF k < 0 THEN k ELSE k + 1)
    ELSE DigitsNumber(Tail(t), n, k)

SegmentN(t) == DigitsNumber(t, 0, -1)[1]
SegmentK(t) == IF DigitsNumber(t, 0, -1)[2] < 0 THEN 0 ELSE DigitsNumber(t, 0, -1)[2]

\* a * 10^-j = b * 10^-k
SameNumber(a, j, b, k) == a * Pow10(k) = b * Pow10(j)

\* C7: for a duration string made of an optional integer hour segment ending
\* in h, an optional integer minute segment ending in m and an optional
\* second segment ending in s, in that order, convert_time_to_hours returns
\* hours + minutes/60 + seconds/3600, an absent segment counting as 0; an
\* input with no h, m or s in it returns 0.
C7_DurationValue ==
    time_out # Pending =>
       /\ \A i \in 0..Len(time_str), j \in 0..Len(time_str) :
             LET H == SubSeq(time_str, 1, i)
                 M == SubSeq(time_str, i + 1, j)
                 S == SubSeq(time_str, j + 1, Len(time_str))
             IN (i <= j /\ IsIntSegment(H, "h") /\ IsIntSegment(M, "m")
                        /\ IsSecondSegment(S)) =>
                   /\ time_out.kind = "value"
                   /\ SameNumber(time_out.n, time_out.k,
                                 (SegmentN(H) * 3600 + SegmentN(M) * 60)
                                    * Pow10(SegmentK(S)) + SegmentN(S),
                                 SegmentK(S))
       /\ (\A i \in 1..Len(time_str) : time_str[i] \notin {"h", "m", "s"}) =>
             time_out = [kind |-> "value", n |-> 0, k |-> 0]

\* "3h3m3s" has been converted: 3 hours, 3 minutes and 3 seconds
C7_Witness ==
    /\ time_str = <<"3", "h", "3", "m", "3", "s">>
    /\ time_out = [kind |-> "value", n |-> 10983, k |-> 0]

-----------------------------------------------------------------------------
(* Properties of the accounting reports, checked under SpecAcct.           *)

\* the row has the columns its report reads
EnoughColumns(row) == row.ncols >= 11

\* the text holds at least one digit
HasDigit(t) == \E i \in 1..Len(t) : t[i] \in Digits

RECURSIVE SumPrinted(_, _)
SumPrinted(lines, to) ==
    IF to = 0 THEN [kind |-> "value", n |-> 0, k |-> 0]
    ELSE Add(SumPrinted(lines, to - 1), lines[to].su)

\* C8: in both accounting reports a data row with too few columns, or with a
\* non-numeric duration or CPU-percentage field, is a fatal parse error:
\* whenever a total is printed no row of the file was such a row, every row
\* has produced exactly one record, and the total is the sum of the records'
\* SU.
C8_BadRowIsFatal ==
    rpc = "printed" =>
       /\ \A r \in 1..Len(rows) :
             /\ EnoughColumns(rows[r])
             /\ HasDigit(rows[r].duration)
             /\ variant = "nf" => HasDigit(rows[r].cpu)
       /\ Len(tasks) = Len(rows)
       /\ Len(printed) = Len(rows) + 1
       /\ printed[Len(printed)].kind = "total"
       /\ printed[Len(printed)].su = SumPrinted(printed, Len(rows))

=============================================================================
